---------------------------- MODULE Spec2Model ----------------------------
(***************************************************************************)
(* share-diffs: the QR streaming transport (share_diffs/qr.py).            *)
(*                                                                         *)
(* The sender side (XorShift32, robust_soliton_cdf, sample_degree,         *)
(* lt_encode_symbol, build_frames) is translated from qr.py.  The receiver *)
(* (the peeling decoder and its session handling) is not among the Python  *)
(* sources; it is modelled from sections 4.6 and 4.7 of the design text.   *)
(*                                                                         *)
(* Numbers.  TLC integers are 32-bit signed, so an unsigned 32-bit word is *)
(* kept as a pair <<hi, lo>> of 16-bit halves, and an IEEE double in [0,64)*)
(* as an integer part with four 14-bit limbs of fraction (56 bits).        *)
(***************************************************************************)
EXTENDS Integers, Sequences, FiniteSets, TLC

VARIABLES
    sess,       \* session name -> the inputs of build_frames and its result
    dec,        \* decoder name -> DecodeState of that receiver
    outcome,    \* decoder name -> DecodeOutcome of its last feed
    hist,       \* decoder name -> ghost: what was fed since its last reset
    symOut,     \* encoder instance -> symbol index -> lt_encode_symbol result
    rngState,   \* state of the generator object used by the last symbol call
    cnt,        \* the frame-count computation: its inputs and its result
    cry,        \* the encryption layer: plaintext, ciphertext, decrypted text
    draw,       \* the index-selection loop of one symbol, iteration by iteration
    deg,        \* one call of sample_degree: its inputs and its result
    pdf,        \* the PDF transport: the data, the attachments, the recovered data
    rep         \* the bundle of diffs: sender's repos, bundle, receiver's repos

\* the QR transport, and the computations modelled on their own
transport == <<sess, dec, outcome, hist, symOut, rngState, cnt>>
side == <<cry, draw, deg, pdf, rep>>
vars == <<transport, side>>

(***************************************************************************)
(* Bounds of the model.                                                    *)
(***************************************************************************)
MaxLen == 3          \* longest payload, in bytes
MaxChunk == 2        \* largest chunk_size
MaxCountK == 25      \* largest K of the frame-count computation
MaxSym == 2          \* largest symbol index of the single-symbol calls
MaxBlocks == 2       \* most whole 190-byte blocks of a plaintext
MaxLoopK == 4        \* largest K of the index-selection loop run on its own
MaxDraws == 32       \* most iterations of the index-selection loop followed

ByteVals == {0, 173}                    \* payload byte values drawn
NoVal == <<>>                           \* an unsolved slot, no generator
NoSid == ""                             \* no session

\* fec_seed values drawn, as <<hi, lo>>: 0x00000004, 0x00030000 (per-symbol
\* seed 0 at K = 3, i = 0), 0xD096BFD6 and 0x6E106C0E (mixed degrees)
Seeds == {<<0, 4>>, <<3, 0>>, <<53398, 49110>>, <<28176, 27662>>}

-----------------------------------------------------------------------------
(***************************************************************************)
(* Bit arithmetic.                                                         *)
(***************************************************************************)
RECURSIVE XorBits(_, _, _)
XorBits(a, b, n) ==
    IF n = 0 THEN 0
    ELSE ((a + b) % 2) + 2 * XorBits(a \div 2, b \div 2, n - 1)

\* a ^ b for bytes, tabulated once
XorTable == [a \in 0..255 |-> [b \in 0..255 |-> XorBits(a, b, 8)]]

Xor8(a, b) == XorTable[a][b]
Xor16(a, b) ==
    256 * Xor8(a \div 256, b \div 256) + Xor8(a % 256, b % 256)
Xor32(x, y) == <<Xor16(x[1], y[1]), Xor16(x[2], y[2])>>

\* (x << 13) & 0xFFFFFFFF, x >> 17, (x << 5) & 0xFFFFFFFF on <<hi, lo>>
Shl13(x) == <<(x[1] % 8) * 8192 + (x[2] \div 8), (x[2] % 8) * 8192>>
Shr17(x) == <<0, x[1] \div 2>>
Shl5(x) == <<(x[1] % 2048) * 32 + (x[2] \div 2048), (x[2] % 2048) * 32>>

\* x % m for a 32-bit x and 1 <= m < 2^15
U32Mod(x, m) == (((x[1] % m) * (65536 % m)) + x[2]) % m

Min(a, b) == IF a <= b THEN a ELSE b
Max(a, b) == IF a >= b THEN a ELSE b
SetMin(S) == CHOOSE x \in S : \A y \in S : x <= y

RECURSIVE Gcd(_, _)
Gcd(a, b) == IF b = 0 THEN a ELSE Gcd(b, a % b)

\* exact rationals <<num, den>>, den > 0, in lowest terms
RNorm(n, d) == LET g == Gcd(n, d) IN IF n = 0 THEN <<0, 1>> ELSE <<n \div g, d \div g>>
RAdd(p, q) == RNorm(p[1] * q[2] + q[1] * p[2], p[2] * q[2])
RDiv(p, q) == RNorm(p[1] * q[2], p[2] * q[1])

-----------------------------------------------------------------------------
(***************************************************************************)
(* class XorShift32                                                        *)
(***************************************************************************)
\* variant: the seed taken as it is, zero included
XorShift32Raw(seed) == seed

\* __init__: self.state = (seed or 0xDEADBEEF) & 0xFFFFFFFF
XorShift32(seed) == IF seed = <<0, 0>> THEN <<57005, 48879>> ELSE seed

\* variant: the shifted value never stored, the old state returned
rand32Unstored(state) == state

\* rand32: the new state, which is also the value returned
rand32(state) ==
    LET x1 == Xor32(state, Shl13(state))
        x2 == Xor32(x1, Shr17(x1))
    IN  Xor32(x2, Shl5(x2))

\* randint(a, b) on the state AFTER the step: a + (rand32() % (b - a + 1))
randint(newState, a, b) == a + U32Mod(newState, b - a + 1)

-----------------------------------------------------------------------------
(***************************************************************************)
(* robust_soliton_cdf and sample_degree.                                   *)
(*                                                                         *)
(* The floats of the code are kept as exact rationals.  For K <= 25 the    *)
(* spike parameter R = max(1, int(c * log(K / delta) * sqrt(K))) is 1      *)
(* (c * ln(2K) * sqrt(K) < 2), so cut = K and the branch d = cut of the    *)
(* tau loop (d < K) is never taken: every term is rational.  The only use  *)
(* of the cdf is the test cdf[mid] >= u with u = rand32 / 2^32, and for    *)
(* K <= 5 the double cdf[mid] and the rational give the same answer for    *)
(* every 32-bit rand32 (floor(cdf[mid] * 2^32) agrees).                    *)
(***************************************************************************)
SolitonR(K) == 1
SolitonCut(K) == Max(1, K \div SolitonR(K))

tau(K, d) ==
    IF d >= 1 /\ d < K /\ d < SolitonCut(K) THEN <<SolitonR(K), d * K>> ELSE <<0, 1>>

rho(K, d) ==
    IF d = 1 THEN <<1, K>>
    ELSE IF d >= 2 /\ d <= K THEN <<1, d * (d - 1)>> ELSE <<0, 1>>

RECURSIVE SumTo(_, _)
\* sum of rho[j] + tau[j] for j in 1..d
SumTo(K, d) ==
    IF d = 0 THEN <<0, 1>> ELSE RAdd(SumTo(K, d - 1), RAdd(rho(K, d), tau(K, d)))

\* cdf[0] = 0, cdf[d] = sum of pmf[1..d], cdf[-1] = 1.0
robust_soliton_cdf(K) ==
    [d \in 0..K |->
        IF d = K THEN <<1, 1>> ELSE RDiv(SumTo(K, d), SumTo(K, K))]

\* variant: the strict comparison cdf[mid] > u
CdfGreater(q, r) ==
    LET low == r[2] * q[2]
        A == r[1] * q[2] + (low \div 65536)
    IN  q[1] * 65536 > A

\* cdf[mid] >= u, for u = r / 0x100000000 and cdf[mid] = q[1] / q[2]
CdfGeq(q, r) ==
    LET low == r[2] * q[2]
        A == r[1] * q[2] + (low \div 65536)
    IN  \/ q[1] * 65536 > A
        \/ q[1] * 65536 = A /\ low % 65536 = 0

RECURSIVE DegreeSearch(_, _, _, _)
\* the while lo < hi loop of sample_degree
DegreeSearch(cdf, r, lo, hi) ==
    IF lo < hi
    THEN LET mid == (lo + hi) \div 2
         IN  IF CdfGeq(cdf[mid], r)
             THEN DegreeSearch(cdf, r, lo, mid)
             ELSE DegreeSearch(cdf, r, mid + 1, hi)
    ELSE lo

\* sample_degree(cdf, rng), rng already stepped once to newState
sample_degree(cdf, newState) ==
    DegreeSearch(cdf, newState, 1, Cardinality(DOMAIN cdf) - 1)

-----------------------------------------------------------------------------
(***************************************************************************)
(* lt_encode_symbol                                                        *)
(***************************************************************************)
\* the per-symbol seed (fec_seed ^ sym_id ^ (K << 16)) & 0xFFFFFFFF,
\* for sym_id < 2^16 and K < 2^16
SymbolSeed(fec_seed, sym_id, K) ==
    <<Xor16(fec_seed[1], K), Xor16(fec_seed[2], sym_id)>>

RECURSIVE DrawDistinct(_, _, _, _)
\* while len(chosen) < d: chosen.add(rng.randint(0, K - 1))
DrawDistinct(state, chosen, d, K) ==
    IF Cardinality(chosen) < d
    THEN LET s2 == rand32(state)
         IN  DrawDistinct(s2, chosen \cup {randint(s2, 0, K - 1)}, d, K)
    ELSE [chosen |-> chosen, state |-> state]

XorBytes(a, b) == [i \in 1..Len(a) |-> Xor8(a[i], b[i])]

\* variant: the accumulator returned without the XOR
XorChunksNone(chunks, out, idxs) == out

RECURSIVE XorChunks(_, _, _)
\* for j in idxs[1:]: out ^= chunks[j], idxs taken in ascending order
XorChunks(chunks, out, idxs) ==
    IF idxs = {} THEN out
    ELSE LET j == SetMin(idxs)
         IN  XorChunks(chunks, XorBytes(out, chunks[j + 1]), idxs \ {j})

\* variant: the degree sampled on a copy of the generator, the index loop
\* run on the generator as seeded
SymbolDrawOnCopy(K, rng0, cdf) ==
    LET d == Max(1, Min(K, sample_degree(cdf, rand32(rng0))))
        dr == DrawDistinct(rng0, {}, d, K)
    IN  [d |-> d, chosen |-> dr.chosen, state |-> dr.state]

\* lines 101-107 on a generator in state rng0: the degree, the chosen set
\* and the generator's state when the loop ends
SymbolDraw(K, rng0, cdf) ==
    LET s1 == rand32(rng0)
        d == Max(1, Min(K, sample_degree(cdf, s1)))
        dr == DrawDistinct(s1, {}, d, K)
    IN  [d |-> d, chosen |-> dr.chosen, state |-> dr.state]

\* variant: one generator shared by the calls, left where the last call
\* left it
SymbolRngShared(fec_seed, sym_id, K) ==
    IF rngState = NoVal THEN XorShift32(SymbolSeed(fec_seed, sym_id, K))
    ELSE rngState

\* rng = XorShift32(...): a fresh generator for every symbol
SymbolRng(fec_seed, sym_id, K) == XorShift32(SymbolSeed(fec_seed, sym_id, K))

\* chunks is a sequence (chunk index j at position j + 1) of byte sequences.
\* Returns (payload_bytes, d); chosen and state are the locals at return.
lt_encode_symbol(chunks, sym_id, fec_seed, cdf) ==
    LET K == Len(chunks)
        dr == SymbolDraw(K, SymbolRng(fec_seed, sym_id, K), cdf)
        first == SetMin(dr.chosen)
    IN  [p |-> XorChunks(chunks, chunks[first + 1], dr.chosen \ {first}),
         d |-> dr.d, chosen |-> dr.chosen, state |-> dr.state]

-----------------------------------------------------------------------------
(***************************************************************************)
(* Doubles.  A double x with 0 <= x < 64 is [int |-> floor(x), f |-> the   *)
(* fraction in units of 2^-56 as four 14-bit limbs, least significant      *)
(* first].  K * (1.0 + overhead) is two correctly rounded operations       *)
(* (round to nearest, ties to even, 53-bit significand).                   *)
(***************************************************************************)
RECURSIVE Pow2(_)
Pow2(n) == IF n = 0 THEN 1 ELSE 2 * Pow2(n - 1)

Limb == Pow2(14)

RECURSIVE Log2(_)
\* floor(log2(n)) for n >= 1
Log2(n) == IF n < 2 THEN 0 ELSE 1 + Log2(n \div 2)

\* carry propagation over limbs that may exceed 14 bits
Carry(int, t) ==
    LET c0 == t[1] \div Limb
        u1 == t[2] + c0
        c1 == u1 \div Limb
        u2 == t[3] + c1
        c2 == u2 \div Limb
        u3 == t[4] + c2
    IN  [int |-> int + (u3 \div Limb),
         f |-> <<t[1] % Limb, u1 % Limb, u2 % Limb, u3 % Limb>>]

\* round to nearest multiple of 2^drop units (drop < 14), ties to even
RoundBits(x, drop) ==
    LET unit == Pow2(drop)
        low == x.f[1] % unit
        odd == (x.f[1] \div unit) % 2 = 1
        up == \/ 2 * low > unit
              \/ 2 * low = unit /\ odd
    IN  IF drop = 0 THEN x
        ELSE Carry(x.int, <<x.f[1] - low + (IF up THEN unit ELSE 0),
                            x.f[2], x.f[3], x.f[4]>>)

\* the double nearest to the real x >= 1: 53 significant bits
Round53(x) == RoundBits(x, Log2(x.int) + 4)

\* 1.0 + overhead, for a double overhead in {0} or [1/16, 1)
DoubleOnePlus(ov) == Round53([int |-> 1, f |-> ov.f])

\* K * m for an integer K >= 1 and a double m in [1, 2]
DoubleTimes(K, m) ==
    Round53(Carry(K * m.int, <<K * m.f[1], K * m.f[2], K * m.f[3], K * m.f[4]>>))

\* int(math.ceil(x))
DoubleCeil(x) == x.int + (IF x.f = <<0, 0, 0, 0>> THEN 0 ELSE 1)

\* the doubles 0.0, 0.12 (0x1.eb851eb851eb8p-4) and 0.5, with the decimal
\* they are written as, in percent
Overheads ==
    { [pct |-> 0, f |-> <<0, 0, 0, 0>>],
      [pct |-> 12, f |-> <<7864, 11796, 1310, 1966>>],
      [pct |-> 50, f |-> <<0, 0, 0, 8192>>] }

DefaultOverhead == CHOOSE o \in Overheads : o.pct = 12

\* N = int(math.ceil(K * (1.0 + overhead)))
FrameCount(K, overhead) == DoubleCeil(DoubleTimes(K, DoubleOnePlus(overhead)))

-----------------------------------------------------------------------------
(***************************************************************************)
(* b64u: URL-safe base64 without the trailing "=".  A text is the sequence *)
(* of its characters' alphabet indices (0..63).                            *)
(***************************************************************************)
BitAt(bytes, t) ==
    IF t >= 8 * Len(bytes) THEN 0
    ELSE (bytes[(t \div 8) + 1] \div Pow2(7 - (t % 8))) % 2

b64u(b) ==
    [k \in 1..((8 * Len(b) + 5) \div 6) |->
        LET t == 6 * (k - 1)
        IN  32 * BitAt(b, t) + 16 * BitAt(b, t + 1) + 8 * BitAt(b, t + 2)
            + 4 * BitAt(b, t + 3) + 2 * BitAt(b, t + 4) + BitAt(b, t + 5)]

-----------------------------------------------------------------------------
(***************************************************************************)
(* build_frames                                                            *)
(***************************************************************************)
\* variant: the slicing loop run one round too many
RawChunksExtra(data, chunk_size) ==
    [k \in 1..((Len(data) \div chunk_size) + 1) |->
        SubSeq(data, (k - 1) * chunk_size + 1,
               Min(Len(data), k * chunk_size))]

\* data[i : i + chunk_size] for i in range(0, total_len, chunk_size)
RawChunks(data, chunk_size) ==
    [k \in 1..((Len(data) + chunk_size - 1) \div chunk_size) |->
        SubSeq(data, (k - 1) * chunk_size + 1, Min(k * chunk_size, Len(data)))]

\* if not chunks: chunks = [bytearray([0])]
ChunksOrZero(raw) == IF raw = <<>> THEN << <<0>> >> ELSE raw

\* cs = max(len(c) for c in chunks)
ChunkLen(chunks) ==
    CHOOSE n \in {Len(chunks[k]) : k \in 1..Len(chunks)} :
        \A k \in 1..Len(chunks) : Len(chunks[k]) <= n

\* variant: the zero bytes put in front of the chunk
PadChunkFront(c, cs) == [i \in 1..(cs - Len(c)) |-> 0] \o c

\* c.extend(b"\x00" * (cs - len(c)))
PadChunk(c, cs) == c \o [i \in 1..(cs - Len(c)) |-> 0]

\* lines 122-129: the padded chunk list
Chunks(data, chunk_size) ==
    LET raw == ChunksOrZero(RawChunks(data, chunk_size))
        cs == ChunkLen(raw)
    IN  [k \in 1..Len(raw) |-> PadChunk(raw[k], cs)]

\* variant: the frame header announcing one chunk too few
FrameLowK(sid, total_len, K, cs, sym, fec_seed, d, payload) ==
    [v |-> 1, sid |-> sid, len |-> total_len, K |-> Max(1, K - 1), cs |-> cs,
     i |-> sym, r |-> fec_seed, d |-> d, p |-> b64u(payload)]

\* one frame dict; the salt "x" (two random bytes that nothing reads) is
\* left out of the state
Frame(sid, total_len, K, cs, sym, fec_seed, d, payload) ==
    [v |-> 1, sid |-> sid, len |-> total_len, K |-> K, cs |-> cs, i |-> sym,
     r |-> fec_seed, d |-> d, p |-> b64u(payload)]

\* build_frames with the two os.urandom results given: the list of frames,
\* list position j at sequence position j + 1
build_frames(data, chunk_size, overhead, fec_seed, sid) ==
    LET chunks == Chunks(data, chunk_size)
        K == Len(chunks)
        cs == ChunkLen(chunks)
        cdf == robust_soliton_cdf(K)
        N == FrameCount(K, overhead)
    IN  [j \in 1..N |->
            LET sym == j - 1
                e == lt_encode_symbol(chunks, sym, fec_seed, cdf)
            IN  Frame(sid, Len(data), K, cs, sym, fec_seed, e.d, e.p)]

-----------------------------------------------------------------------------
(***************************************************************************)
(* The receiver: frame decoding, the peeling decoder and its session       *)
(* handling (design sections 4.5 to 4.7).                                  *)
(***************************************************************************)
\* inverse of b64u: the bytes of a text of alphabet indices
SextetBit(text, t) == (text[(t \div 6) + 1] \div Pow2(5 - (t % 6))) % 2

b64u_decode(text) ==
    [k \in 1..((6 * Len(text)) \div 8) |->
        LET t == 8 * (k - 1)
        IN  128 * SextetBit(text, t) + 64 * SextetBit(text, t + 1)
            + 32 * SextetBit(text, t + 2) + 16 * SextetBit(text, t + 3)
            + 8 * SextetBit(text, t + 4) + 4 * SextetBit(text, t + 5)
            + 2 * SextetBit(text, t + 6) + SextetBit(text, t + 7)]

\* no DecodeState
NoState ==
    [sid |-> NoSid, K |-> 0, cs |-> 0, len |-> 0, solved |-> <<>>,
     unresolved |-> <<>>, ripe |-> <<>>, seen |-> {}, status |-> "IDLE"]

\* step 1: a fresh DecodeState for the session of an incoming frame;
\* solved[j + 1] is chunk j, NoVal while unknown
NewState(fr) ==
    [sid |-> fr.sid, K |-> fr.K, cs |-> fr.cs, len |-> fr.len,
     solved |-> [j \in 1..fr.K |-> NoVal],
     unresolved |-> <<>>, ripe |-> <<>>, seen |-> {}, status |-> "ACTIVE"]

\* step 1: the state a frame is processed against
SessionState(st, fr) == IF st.sid = fr.sid THEN st ELSE NewState(fr)

\* variant: no frame taken for a duplicate
IsDuplicateNever(st, fr) == FALSE

\* step 2: the frame's (session id, i) pair was consumed before
IsDuplicate(st, fr) == <<fr.sid, fr.i>> \in st.seen

\* step 3: the chunk-index set of symbol i, replayed from (fec_seed, i, K)
\* with the carried degree d
IndexSet(fec_seed, i, K, d) ==
    DrawDistinct(rand32(SymbolRng(fec_seed, i, K)), {}, d, K).chosen

SolvedIdx(st) == {j \in 0..(st.K - 1) : st.solved[j + 1] # NoVal}

RECURSIVE XorSolved(_, _, _)
\* step 4: XOR the solved chunks among idxs out of val
XorSolved(st, val, idxs) ==
    IF idxs = {} THEN val
    ELSE LET j == SetMin(idxs)
         IN  XorSolved(st, XorBytes(val, st.solved[j + 1]), idxs \ {j})

\* step 4: the symbol record of a frame, reduced by what is solved
Reduce(st, fr) ==
    LET all == IndexSet(fr.r, fr.i, fr.K, fr.d)
        known == all \cap SolvedIdx(st)
    IN  [i |-> fr.i, idxs |-> all \ known,
         val |-> XorSolved(st, b64u_decode(fr.p), known)]

\* variant: the newly solved chunk struck from the index sets but not XORed
\* out of the values
RECURSIVE PropagateNoXor(_, _, _, _, _)
PropagateNoXor(recs, k, j, val, acc) ==
    IF k > Len(recs) THEN acc
    ELSE LET red == [recs[k] EXCEPT !.idxs = @ \ {j}]
         IN  IF Cardinality(red.idxs) = 1
             THEN PropagateNoXor(recs, k + 1, j, val,
                                 [acc EXCEPT !.ripe = Append(@, red)])
             ELSE PropagateNoXor(recs, k + 1, j, val,
                                 [acc EXCEPT !.keep = Append(@, red)])

\* step 6: XOR the newly solved chunk j out of every unresolved record that
\* references it; records left with one unknown index move to the ripe queue
RECURSIVE Propagate(_, _, _, _, _)
Propagate(recs, k, j, val, acc) ==
    IF k > Len(recs) THEN acc
    ELSE LET rec == recs[k]
             red == IF j \in rec.idxs
                    THEN [rec EXCEPT !.idxs = @ \ {j}, !.val = XorBytes(@, val)]
                    ELSE rec
         IN  IF Cardinality(red.idxs) = 1
             THEN Propagate(recs, k + 1, j, val,
                            [acc EXCEPT !.ripe = Append(@, red)])
             ELSE Propagate(recs, k + 1, j, val,
                            [acc EXCEPT !.keep = Append(@, red)])

\* step 6: drain the ripe queue
RECURSIVE Drain(_)
Drain(st) ==
    IF st.ripe = <<>> THEN st
    ELSE LET rec == Head(st.ripe)
             j == SetMin(rec.idxs)
         IN  IF st.solved[j + 1] # NoVal
             THEN Drain([st EXCEPT !.ripe = Tail(@)])
             ELSE LET pr == Propagate(st.unresolved, 1, j, rec.val,
                                      [keep |-> <<>>, ripe |-> Tail(st.ripe)])
                  IN  Drain([st EXCEPT !.solved[j + 1] = rec.val,
                                       !.unresolved = pr.keep,
                                       !.ripe = pr.ripe])

\* steps 7 and 8
Settle(st) ==
    [st EXCEPT !.status =
        IF SolvedIdx(st) = 0..(st.K - 1) THEN "COMPLETE" ELSE "STALLED"]

\* variant: a vacuous frame recorded in the seen set before it is dropped
AcceptMarksVacuous(st, fr) ==
    LET st1 == [st EXCEPT !.seen = @ \cup {<<fr.sid, fr.i>>}]
        rec == Reduce(st1, fr)
        n == Cardinality(rec.idxs)
    IN  IF n = 0 THEN Settle(st1)
        ELSE IF n = 1
             THEN Settle(Drain([st1 EXCEPT !.ripe = Append(@, rec)]))
             ELSE Settle([st1 EXCEPT !.unresolved = Append(@, rec)])

\* steps 4 to 8 for a frame that is no duplicate; a vacuous frame is dropped
\* with no side effects (section 5), the others are recorded as consumed
Accept(st, fr) ==
    LET st1 == [st EXCEPT !.seen = @ \cup {<<fr.sid, fr.i>>}]
        rec == Reduce(st, fr)
        n == Cardinality(rec.idxs)
    IN  IF n = 0 THEN st
        ELSE IF n = 1
             THEN Settle(Drain([st1 EXCEPT !.ripe = Append(@, rec)]))
             ELSE Settle([st1 EXCEPT !.unresolved = Append(@, rec)])

\* section 4.5: a frame whose fields contradict each other is malformed
WellFormed(fr) ==
    /\ fr.v = 1 /\ fr.K >= 1 /\ fr.cs >= 1 /\ fr.len >= 0 /\ fr.i >= 0
    /\ fr.d >= 1 /\ fr.d <= fr.K
    /\ Len(b64u_decode(fr.p)) = fr.cs

\* feed(decoder_state, frame): the DecodeState after the frame
FeedFrame(st, fr) ==
    IF ~WellFormed(fr) THEN st
    ELSE LET cur == SessionState(st, fr)
         IN  IF IsDuplicate(cur, fr) THEN cur ELSE Accept(cur, fr)

RECURSIVE Concat(_, _)
Concat(chunks, k) ==
    IF k > Len(chunks) THEN <<>> ELSE chunks[k] \o Concat(chunks, k + 1)

\* step 7: the concatenation of the chunks truncated to length L
Reconstruct(st) ==
    LET all == Concat(st.solved, 1)
    IN  SubSeq(all, 1, Min(st.len, Len(all)))

\* the DecodeOutcome reported for a DecodeState
OutcomeOf(st) ==
    IF st.status = "COMPLETE"
    THEN [kind |-> "Complete", bytes |-> Reconstruct(st)]
    ELSE [kind |-> "Pending", bytes |-> <<>>]

\* feed(decoder_state, frame): the DecodeOutcome returned, st being the
\* DecodeState after the frame
FeedOutcome(st, fr) ==
    IF ~WellFormed(fr) THEN [kind |-> "FrameCorrupt", bytes |-> <<>>]
    ELSE OutcomeOf(st)

NoOutcome == [kind |-> "None", bytes |-> <<>>]

-----------------------------------------------------------------------------
(***************************************************************************)
(* State machine.                                                          *)
(***************************************************************************)
Payloads == UNION {[1..n -> ByteVals] : n \in 0..MaxLen}

\* a call of build_frames not yet made
Unbuilt(data, chunk_size, overhead) ==
    [data |-> data, chunk_size |-> chunk_size, overhead |-> overhead,
     built |-> FALSE, fec_seed |-> <<0, 0>>, sid |-> NoSid,
     chunks |-> <<>>, frames |-> <<>>]

\* the overheads of the sessions: 0.0 and the default 0.12
SessOverheads == {o \in Overheads : o.pct <= 12}

SessInputs ==
    {Unbuilt(p, c, o) : p \in Payloads, c \in 1..MaxChunk, o \in SessOverheads}

\* ghost history of a receiver; track names the fields a specification keeps
NoHist(track) ==
    [track |-> track, src |-> "", since |-> {}, inorder |-> 0,
     perm |-> FALSE, dupAt |-> {}, switched |-> FALSE]

\* variant: a nonce that may repeat the nonce of another session
UrandomSidAny(s) == {"sid" \o t : t \in DOMAIN sess}

\* sid = os.urandom(8): eight random bytes, taken to differ from the nonce of
\* every other session
UrandomSid(s) ==
    {"sid" \o t : t \in DOMAIN sess} \ {sess[t].sid : t \in DOMAIN sess \ {s}}

\* frames = build_frames(data, chunk_size, overhead)
BuildFrames(s) ==
    /\ ~sess[s].built
    /\ \E fec_seed \in Seeds, sid \in UrandomSid(s) :
        LET in == sess[s]
            chunks == Chunks(in.data, in.chunk_size)
            frames == build_frames(in.data, in.chunk_size, in.overhead,
                                   fec_seed, sid)
        IN  /\ sess' = [sess EXCEPT ![s] =
                    [in EXCEPT !.built = TRUE, !.fec_seed = fec_seed,
                               !.sid = sid, !.chunks = chunks,
                               !.frames = frames]]
            /\ rngState' =
                   lt_encode_symbol(chunks, Len(frames) - 1, fec_seed,
                                    robust_soliton_cdf(Len(chunks))).state
    /\ UNCHANGED <<dec, outcome, hist, symOut, cnt, side>>

\* ghost: what a receiver has been fed since its DecodeState was created.
\*   src      the session the last frame came from
\*   since    the list positions fed since the DecodeState was created
\*   inorder  n when exactly positions 0..n-1 were fed, in order, once; else -1
\*   perm     a position was first fed after a larger one
\*   dupAt    the statuses at which an already consumed frame was fed again
\*   switched a frame of another session replaced the DecodeState
FeedHist(h, st, s, fr, pos) ==
    LET reset == st.sid # fr.sid
        since == IF reset THEN {} ELSE h.since
        isDup == ~reset /\ <<fr.sid, fr.i>> \in st.seen
    IN  [track |-> h.track,
         src |-> s,
         since |-> since \cup {pos},
         inorder |-> IF "inorder" \notin h.track THEN h.inorder
                     ELSE IF h.inorder = pos /\ h.src \in {"", s}
                          THEN pos + 1 ELSE -1,
         perm |-> IF "perm" \notin h.track THEN h.perm
                  ELSE (~reset /\ h.perm)
                       \/ (pos \notin since /\ \E q \in since : q > pos),
         dupAt |-> IF "dupAt" \notin h.track THEN h.dupAt
                   ELSE (IF reset THEN {} ELSE h.dupAt)
                        \cup (IF isDup THEN {st.status} ELSE {}),
         switched |-> IF "switched" \notin h.track THEN h.switched
                      ELSE h.switched \/ (reset /\ st.sid # NoSid)]

\* the receiver dc scans the frame at list position j - 1 of session s
Feed(dc, s, j) ==
    /\ sess[s].built
    /\ j \in 1..Len(sess[s].frames)
    /\ LET fr == sess[s].frames[j]
           st == FeedFrame(dec[dc], fr)
       IN  /\ dec' = [dec EXCEPT ![dc] = st]
           /\ outcome' = [outcome EXCEPT ![dc] = FeedOutcome(st, fr)]
           /\ hist' = [hist EXCEPT ![dc] = FeedHist(@, dec[dc], s, fr, j - 1)]
    /\ UNCHANGED <<sess, symOut, rngState, cnt, side>>

BuildStep == \E s \in DOMAIN sess : BuildFrames(s)
FeedStep ==
    \E dc \in DOMAIN dec, s \in DOMAIN sess, j \in 1..(2 * (MaxLen + 1)) :
        Feed(dc, s, j)

Decoders(D, track) ==
    /\ dec = [d \in D |-> NoState]
    /\ outcome = [d \in D |-> NoOutcome]
    /\ hist = [d \in D |-> NoHist(track)]

NoSymbols == [active |-> FALSE]
NoCount == [active |-> FALSE]
NoCrypt == [active |-> FALSE]
NoDraw == [active |-> FALSE]
NoDegree == [active |-> FALSE]
NoPdf == [active |-> FALSE]
NoRepos == [active |-> FALSE]

\* the computations modelled on their own take no part
SideIdle ==
    /\ cry = NoCrypt /\ draw = NoDraw /\ deg = NoDegree /\ pdf = NoPdf
    /\ rep = NoRepos

\* one sender, one receiver
Init ==
    /\ sess \in [{"A"} -> SessInputs]
    /\ Decoders({1}, {"inorder", "dupAt"})
    /\ symOut = NoSymbols
    /\ rngState = NoVal
    /\ cnt = NoCount
    /\ SideIdle

Next == BuildStep \/ FeedStep

Spec == Init /\ [][Next]_vars

-----------------------------------------------------------------------------
(***************************************************************************)
(* One receiver fed one session's frames in every order: the inputs are    *)
(* payloads of the two largest lengths, one byte per chunk.                *)
(***************************************************************************)
PermInputs ==
    {Unbuilt(p, 1, DefaultOverhead) : p \in {q \in Payloads : Len(q) >= MaxLen - 1}}

InitPerm ==
    /\ sess \in [{"A"} -> PermInputs]
    /\ Decoders({1}, {"perm", "dupAt"})
    /\ symOut = NoSymbols
    /\ rngState = NoVal
    /\ cnt = NoCount
    /\ SideIdle

SpecPerm == InitPerm /\ [][Next]_vars

(***************************************************************************)
(* Two senders, one receiver, payloads of MaxChunk bytes, one byte per     *)
(* chunk: A sends the payload without a zero byte, B any payload that      *)
(* starts with a nonzero byte.                                             *)
(***************************************************************************)
IsoPayloads == {q \in Payloads : Len(q) = MaxChunk /\ q[1] # 0}

IsoInputs == {Unbuilt(p, 1, DefaultOverhead) : p \in IsoPayloads}

InitIso ==
    /\ \E a \in {i \in IsoInputs : \A k \in 1..MaxChunk : i.data[k] # 0},
          b \in IsoInputs :
        sess = [s \in {"A", "B"} |-> IF s = "A" THEN a ELSE b]
    /\ Decoders({1}, {"switched"})
    /\ symOut = NoSymbols
    /\ rngState = NoVal
    /\ cnt = NoCount
    /\ SideIdle

SpecIso == InitIso /\ [][Next]_vars

(***************************************************************************)
(* lt_encode_symbol on its own: any symbol index, any number of times, in  *)
(* any order.  out[i] is the result of the first call for index i; same    *)
(* turns FALSE when a later call for i returns something else.             *)
(***************************************************************************)
NoSymbol == [p |-> <<>>, d |-> 0, chosen |-> {}]

ChunkLists == {Chunks(p, c) : p \in Payloads, c \in 1..MaxChunk}

InitSym ==
    /\ \E chunks \in ChunkLists, fec_seed \in Seeds :
        symOut = [active |-> TRUE, chunks |-> chunks, fec_seed |-> fec_seed,
                  out |-> [i \in 0..MaxSym |-> NoSymbol],
                  calls |-> [i \in 0..MaxSym |-> 0], same |-> TRUE]
    /\ sess = <<>> /\ dec = <<>> /\ outcome = <<>> /\ hist = <<>>
    /\ rngState = NoVal
    /\ cnt = NoCount
    /\ SideIdle

\* payload, d = lt_encode_symbol(chunks, sym, fec_seed, cdf)
EncodeSymbol(sym) ==
    /\ symOut.active
    /\ LET e == lt_encode_symbol(symOut.chunks, sym, symOut.fec_seed,
                                 robust_soliton_cdf(Len(symOut.chunks)))
           res == [p |-> e.p, d |-> e.d, chosen |-> e.chosen]
           again == symOut.calls[sym] > 0
       IN  /\ symOut' = [symOut EXCEPT
                   !.out[sym] = IF again THEN @ ELSE res,
                   !.calls[sym] = Min(2, @ + 1),
                   !.same = @ /\ (again => res = symOut.out[sym])]
           /\ rngState' = e.state
    /\ UNCHANGED <<sess, dec, outcome, hist, cnt, side>>

NextSym == \E sym \in 0..MaxSym : EncodeSymbol(sym)

SpecSym == InitSym /\ [][NextSym]_vars

(***************************************************************************)
(* The frame count N of build_frames on its own.                           *)
(***************************************************************************)
InitCount ==
    /\ \E K \in 1..MaxCountK, overhead \in Overheads :
        cnt = [active |-> TRUE, K |-> K, overhead |-> overhead,
               done |-> FALSE, N |-> 0]
    /\ sess = <<>> /\ dec = <<>> /\ outcome = <<>> /\ hist = <<>>
    /\ symOut = NoSymbols
    /\ rngState = NoVal
    /\ SideIdle

\* N = int(math.ceil(K * (1.0 + overhead)))
CountFrames ==
    /\ cnt.active /\ ~cnt.done
    /\ cnt' = [cnt EXCEPT !.done = TRUE, !.N = FrameCount(cnt.K, cnt.overhead)]
    /\ UNCHANGED <<sess, dec, outcome, hist, symOut, rngState, side>>

NextCount == CountFrames

SpecCount == InitCount /\ [][NextCount]_vars

-----------------------------------------------------------------------------
(***************************************************************************)
(* The integrity gate (design section 4.7).  The sender publishes          *)
(* sha256_hex(data) in the manifest; the receiver compares it with the     *)
(* hash of what it reconstructed.  Frames may be altered on the way: an    *)
(* altered frame still parses, its payload differs in one bit.             *)
(***************************************************************************)
RECURSIVE DigestFrom(_, _, _)
DigestFrom(b, k, h) ==
    IF k > Len(b) THEN h
    ELSE DigestFrom(b, k + 1, (h * 31 + b[k] + 1) % 65521)

\* sha256_hex(b).  SHA-256 itself is not computed: a 16-bit polynomial
\* digest of the bytes and their number stands for it
sha256_hex(b) == DigestFrom(b, 1, Len(b) + 1)

\* file_hash = sha256_hex(data), the "sha256" entry of the manifest
ContentHash(s) == sha256_hex(sess[s].data)

\* a frame altered in transit: the low bit of its first payload byte flipped
Tamper(fr) ==
    LET raw == b64u_decode(fr.p)
    IN  [fr EXCEPT !.p = b64u([k \in 1..Len(raw) |->
                                  IF k = 1 THEN Xor8(raw[k], 1) ELSE raw[k]])]

\* variant: every reconstruction taken to match
HashMatchesAny(bytes, H) == TRUE

\* section 4.7: the hash of the reconstructed bytes compared with H
HashMatches(bytes, H) == sha256_hex(bytes) = H

\* section 4.7: the DecodeState kept and the outcome reported once the
\* peeling step is done, for a session that carries the hash H
Deliver(st, H) ==
    IF st.status = "COMPLETE" /\ ~HashMatches(Reconstruct(st), H)
    THEN [state |-> NoState,
          outcome |-> [kind |-> "IntegrityFailure", bytes |-> <<>>]]
    ELSE [state |-> st, outcome |-> OutcomeOf(st)]

\* the receiver dc scans the frame at list position j - 1 of session s,
\* altered or not, and checks a completed payload against the manifest hash
FeedChecked(dc, s, j, altered) ==
    /\ sess[s].built
    /\ j \in 1..Len(sess[s].frames)
    /\ LET fr == IF altered THEN Tamper(sess[s].frames[j]) ELSE sess[s].frames[j]
           res == Deliver(FeedFrame(dec[dc], fr), ContentHash(s))
       IN  /\ dec' = [dec EXCEPT ![dc] = res.state]
           /\ outcome' = [outcome EXCEPT ![dc] =
                  IF WellFormed(fr) THEN res.outcome
                  ELSE [kind |-> "FrameCorrupt", bytes |-> <<>>]]
           /\ hist' = [hist EXCEPT ![dc] = FeedHist(@, dec[dc], s, fr, j - 1)]
    /\ UNCHANGED <<sess, symOut, rngState, cnt, side>>

FeedCheckedStep ==
    \E dc \in DOMAIN dec, s \in DOMAIN sess, j \in 1..(2 * (MaxLen + 1)),
       altered \in BOOLEAN :
        FeedChecked(dc, s, j, altered)

\* one sender, one receiver, a channel that may alter frames: payloads of
\* MaxChunk bytes, one byte per chunk
InitHash ==
    /\ sess \in [{"A"} -> {Unbuilt(p, 1, DefaultOverhead) :
                              p \in {q \in Payloads : Len(q) = MaxChunk}}]
    /\ Decoders({1}, {})
    /\ symOut = NoSymbols
    /\ rngState = NoVal
    /\ cnt = NoCount
    /\ SideIdle

NextHash == BuildStep \/ FeedCheckedStep

SpecHash == InitHash /\ [][NextHash]_vars

-----------------------------------------------------------------------------
(***************************************************************************)
(* The encryption layer (share_diffs/crypto.py).  RSA-OAEP itself is kept  *)
(* abstract: a block of at most PlainBlock bytes becomes CipherBlock bytes *)
(* that carry its length, the random pad and the masked bytes, and the     *)
(* private key undoes that; any other input makes the library raise.       *)
(***************************************************************************)
PlainBlock == 190
CipherBlock == 256

\* public_key.encrypt(chunk, OAEP): pad is the randomness of the call
OaepEncrypt(chunk, pad) ==
    <<Len(chunk), pad>>
        \o [k \in 1..Len(chunk) |-> Xor8(chunk[k], pad)]
        \o [k \in 1..(CipherBlock - 2 - Len(chunk)) |-> 0]

\* private_key.decrypt(chunk, OAEP); raised when the library raises
OaepDecrypt(chunk) ==
    IF Len(chunk) = CipherBlock /\ chunk[1] <= PlainBlock
    THEN [raised |-> FALSE,
          bytes |-> [k \in 1..chunk[1] |-> Xor8(chunk[2 + k], chunk[2])]]
    ELSE [raised |-> TRUE, bytes |-> <<>>]

\* variant: a slice one byte short
PlainSliceShort(text, i) ==
    SubSeq(text, i + 1, Min(Len(text), i + PlainBlock - 1))

\* text[i : i + 190]
PlainSlice(text, i) == SubSeq(text, i + 1, Min(Len(text), i + PlainBlock))

\* encrypted_data[i : i + 256]
CipherSlice(data, i) == SubSeq(data, i + 1, Min(Len(data), i + CipherBlock))

\* encrypt: for i in range(0, len(text), 190), from offset i on; the pad of
\* a block is drawn anew for every block
RECURSIVE EncryptFrom(_, _, _)
EncryptFrom(text, i, pad) ==
    IF i >= Len(text) THEN <<>>
    ELSE OaepEncrypt(PlainSlice(text, i), pad)
             \o EncryptFrom(text, i + PlainBlock, (pad + 101) % 256)

encrypt(text, pad) == EncryptFrom(text, 0, pad)

\* decrypt: for i in range(0, len(encrypted_data), 256), from offset i on
RECURSIVE DecryptFrom(_, _)
DecryptFrom(data, i) ==
    IF i >= Len(data) THEN [raised |-> FALSE, bytes |-> <<>>]
    ELSE LET blk == OaepDecrypt(CipherSlice(data, i))
             rest == DecryptFrom(data, i + CipherBlock)
         IN  IF blk.raised \/ rest.raised
             THEN [raised |-> TRUE, bytes |-> <<>>]
             ELSE [raised |-> FALSE, bytes |-> blk.bytes \o rest.bytes]

decrypt(encrypted_data) == DecryptFrom(encrypted_data, 0)

\* the plaintexts: lengths at and around the block boundaries, bytes that
\* depend on their position
PlainLengths ==
    {k * PlainBlock + e : k \in 0..MaxBlocks, e \in {0, 1, 95, PlainBlock - 1}}

PlainTexts ==
    {[k \in 1..n |-> (k * step + 11) % 256] : n \in PlainLengths, step \in {3, 7, 13}}

\* the QR transport takes no part
TransportIdle ==
    /\ sess = <<>> /\ dec = <<>> /\ outcome = <<>> /\ hist = <<>>
    /\ symOut = NoSymbols
    /\ rngState = NoVal
    /\ cnt = NoCount

InitCrypt ==
    /\ \E text \in PlainTexts :
        cry = [active |-> TRUE, stage |-> "plain", text |-> text,
               cipher |-> <<>>, raised |-> FALSE, out |-> <<>>]
    /\ TransportIdle
    /\ draw = NoDraw /\ deg = NoDegree /\ pdf = NoPdf /\ rep = NoRepos

\* encrypted_data = encrypt(text)
Encrypt ==
    /\ cry.active /\ cry.stage = "plain"
    /\ \E pad \in {0, 90} :
        cry' = [cry EXCEPT !.stage = "encrypted",
                           !.cipher = encrypt(cry.text, pad)]
    /\ UNCHANGED <<transport, draw, deg, pdf, rep>>

\* decrypt(encrypted_data)
Decrypt ==
    /\ cry.active /\ cry.stage = "encrypted"
    /\ LET res == decrypt(cry.cipher)
       IN  cry' = [cry EXCEPT !.stage = "decrypted", !.raised = res.raised,
                              !.out = res.bytes]
    /\ UNCHANGED <<transport, draw, deg, pdf, rep>>

NextCrypt == Encrypt \/ Decrypt

SpecCrypt == InitCrypt /\ [][NextCrypt]_vars

-----------------------------------------------------------------------------
(***************************************************************************)
(* The generator and the index-selection loop of lt_encode_symbol, one     *)
(* call of rand32 at a time, for any per-symbol seed and any degree d in   *)
(* 1..K.  The code puts no cap on the loop; the model follows it for       *)
(* MaxDraws iterations.                                                    *)
(***************************************************************************)
\* per-symbol seeds: those of the sessions, zero, one, 2^31 and 2^32 - 1
LoopSeeds == Seeds \cup {<<0, 0>>, <<0, 1>>, <<32768, 0>>, <<65535, 65535>>}

InitDraw ==
    /\ \E seed \in LoopSeeds, K \in 1..MaxLoopK :
        \E d \in 1..K :
            draw = [active |-> TRUE, seed |-> seed, K |-> K, d |-> d,
                    state |-> XorShift32(seed), stage |-> "seeded",
                    chosen |-> {}, n |-> 0]
    /\ TransportIdle
    /\ cry = NoCrypt /\ deg = NoDegree /\ pdf = NoPdf /\ rep = NoRepos

\* sample_degree(cdf, rng): one rand32 call; the degree is d
SampleStep ==
    /\ draw.active /\ draw.stage = "seeded"
    /\ draw' = [draw EXCEPT !.state = rand32(@), !.stage = "loop"]
    /\ UNCHANGED <<transport, cry, deg, pdf, rep>>

\* one iteration of: while len(chosen) < d: chosen.add(rng.randint(0, K - 1))
DrawStep ==
    /\ draw.active /\ draw.stage = "loop"
    /\ Cardinality(draw.chosen) < draw.d
    /\ draw.n < MaxDraws
    /\ LET s2 == rand32(draw.state)
       IN  draw' = [draw EXCEPT !.state = s2,
                                !.chosen = @ \cup {randint(s2, 0, draw.K - 1)},
                                !.n = @ + 1]
    /\ UNCHANGED <<transport, cry, deg, pdf, rep>>

NextDraw == SampleStep \/ DrawStep

SpecDraw == InitDraw /\ [][NextDraw]_vars

(***************************************************************************)
(* The player of the generated site: it shows the frame files of one       *)
(* build_frames call in a loop.  setFrame wraps the position modulo        *)
(* MANIFEST.N, and tick advances it by one per display interval, so the    *)
(* frame on display at tick t is the one at list position t mod N.         *)
(***************************************************************************)
\* setFrame: idx = (i + MANIFEST.N) % MANIFEST.N
setFrame(i, N) == (i + N) % N

\* the frame of session s on display at tick t, counted from frame 1
Displayed(s, t) == sess[s].frames[setFrame(t, Len(sess[s].frames)) + 1]

(***************************************************************************)
(* sample_degree on its own: any nondecreasing cdf from 0 to 1 and any     *)
(* value of rng.rand32().  The cdf entries are doubles, here exact         *)
(* fractions; u = rand32 / 2^32 is exact in a double, so the comparison    *)
(* cdf[mid] >= u of the code is the comparison of the two fractions.       *)
(***************************************************************************)
MaxDegK == 4

\* values of cdf entries: on and off the grid of the multiples of 2^-32
CdfVals == {<<0, 1>>, <<1, 4>>, <<1, 3>>, <<1, 2>>, <<3, 4>>, <<1, 1>>}

\* p <= q for fractions
RLeq(p, q) == p[1] * q[2] <= q[1] * p[2]

\* the lists cdf[0..K] that are nondecreasing from cdf[0] = 0 to cdf[K] = 1
Cdfs(K) ==
    {c \in [0..K -> CdfVals] :
        /\ c[0] = <<0, 1>> /\ c[K] = <<1, 1>>
        /\ \A d \in 1..K : RLeq(c[d - 1], c[d])}

\* values of rng.rand32(): zero, the largest, and those at and next to
\* 1/4, 1/3, 1/2 and 3/4 of 2^32
DegreeDraws ==
    {<<0, 0>>, <<0, 1>>, <<16383, 65535>>, <<16384, 0>>, <<16384, 1>>,
     <<21845, 21845>>, <<21845, 21846>>, <<32767, 65535>>, <<32768, 0>>,
     <<32768, 1>>, <<49152, 0>>, <<49152, 1>>, <<65535, 65535>>}

InitDeg ==
    /\ \E K \in 1..MaxDegK :
        \E c \in Cdfs(K), r \in DegreeDraws :
            deg = [active |-> TRUE, K |-> K, cdf |-> c, r |-> r,
                   done |-> FALSE, d |-> 0, clamped |-> 0]
    /\ TransportIdle
    /\ cry = NoCrypt /\ draw = NoDraw /\ pdf = NoPdf /\ rep = NoRepos

\* d = max(1, min(K, sample_degree(cdf, rng))), the rng returning deg.r
SampleDegree ==
    /\ deg.active /\ ~deg.done
    /\ LET d == sample_degree(deg.cdf, deg.r)
       IN  deg' = [deg EXCEPT !.done = TRUE, !.d = d,
                              !.clamped = Max(1, Min(deg.K, d))]
    /\ UNCHANGED <<transport, cry, draw, pdf, rep>>

NextDeg == SampleDegree

SpecDeg == InitDeg /\ [][NextDeg]_vars

(***************************************************************************)
(* pdfs.py: the payload is split into as many parts as there are input      *)
(* PDFs, part i is attached to the i-th PDF under the name file_<i>.bin,    *)
(* and the receiver joins the attachments in the order of their names.     *)
(* A name is the list of its character codes, compared as Python compares  *)
(* str values.  The order in which glob lists the PDFs does not reach the  *)
(* result: the parts are numbered by enumerate, and the attachments are    *)
(* collected in a dict keyed by name before they are sorted.               *)
(***************************************************************************)
MaxPdfs == 12
MaxData == 12

RECURSIVE SplitFrom(_, _, _, _)
\* for s in sizes: out.append(data[idx : idx + s]); idx += s
SplitFrom(data, sizes, k, idx) ==
    IF k > Len(sizes) THEN <<>>
    ELSE <<SubSeq(data, idx + 1, idx + sizes[k])>>
             \o SplitFrom(data, sizes, k + 1, idx + sizes[k])

\* split_bytes_into_n(data, n), n >= 1
split_bytes_into_n(data, n) ==
    LET L == Len(data)
        q == L \div n
        r == L % n
        sizes == [k \in 1..n |-> IF k <= r THEN q + 1 ELSE q]
    IN  SplitFrom(data, sizes, 1, 0)

RECURSIVE Digits(_)
\* the decimal digits of i as character codes
Digits(i) == IF i < 10 THEN <<48 + i>> ELSE Append(Digits(i \div 10), 48 + (i % 10))

\* f"file_{i}.bin"
AttachmentName(i) == <<102, 105, 108, 101, 95>> \o Digits(i) \o <<46, 98, 105, 110>>

RECURSIVE StrLess(_, _)
\* a < b for Python str values
StrLess(a, b) ==
    IF a = <<>> THEN b # <<>>
    ELSE IF b = <<>> THEN FALSE
    ELSE IF a[1] # b[1] THEN a[1] < b[1]
    ELSE StrLess(Tail(a), Tail(b))

\* attach_to_pdfs: the attachment written into each of the n output PDFs
attach_to_pdfs(n, data) ==
    LET patches == split_bytes_into_n(data, n)
    IN  [k \in 1..n |-> [name |-> AttachmentName(k - 1), data |-> patches[k]]]

RECURSIVE SortedByName(_)
\* sorted(payloads.items(), key=lambda x: x[0])
SortedByName(items) ==
    IF items = {} THEN <<>>
    ELSE LET first == CHOOSE x \in items :
                          \A y \in items \ {x} : StrLess(x.name, y.name)
         IN  <<first>> \o SortedByName(items \ {first})

RECURSIVE JoinFrom(_, _)
\* joined_payload = sorted_payloads[0][1]; then += payload for the rest
JoinFrom(sorted, k) ==
    IF k > Len(sorted) THEN <<>> ELSE sorted[k].data \o JoinFrom(sorted, k + 1)

\* recover_from_pdfs on a folder holding the PDFs files[1..n]
recover_from_pdfs(files) ==
    LET payloads == {files[k] : k \in DOMAIN files}
    IN  JoinFrom(SortedByName(payloads), 1)

\* payloads: all bytes different, or of the two byte values in turn
PdfData ==
    {[k \in 1..L |-> k] : L \in 0..MaxData}
        \cup {[k \in 1..L |-> IF k % 2 = 0 THEN 0 ELSE 173] : L \in 1..MaxData}

InitPdf ==
    /\ \E data \in PdfData, n \in 1..MaxPdfs :
        pdf = [active |-> TRUE, data |-> data, n |-> n, stage |-> "input",
               files |-> <<>>, recovered |-> <<>>]
    /\ TransportIdle
    /\ cry = NoCrypt /\ draw = NoDraw /\ deg = NoDegree /\ rep = NoRepos

\* attach_to_pdfs(pdf_input_folder, pdf_output_folder, data), n input PDFs
AttachToPdfs ==
    /\ pdf.active /\ pdf.stage = "input"
    /\ pdf' = [pdf EXCEPT !.stage = "attached",
                          !.files = attach_to_pdfs(pdf.n, pdf.data)]
    /\ UNCHANGED <<transport, cry, draw, deg, rep>>

\* recover_from_pdfs(pdf_output_folder)
RecoverFromPdfs ==
    /\ pdf.active /\ pdf.stage = "attached"
    /\ pdf' = [pdf EXCEPT !.stage = "recovered",
                          !.recovered = recover_from_pdfs(pdf.files)]
    /\ UNCHANGED <<transport, cry, draw, deg, rep>>

NextPdf == AttachToPdfs \/ RecoverFromPdfs

SpecPdf == InitPdf /\ [][NextPdf]_vars

(***************************************************************************)
(* repos.py: Repos.create_diffs joins, for every repo of the sender, the   *)
(* encrypted name and the encrypted diff behind two markers;               *)
(* Repos.apply_diffs cuts the bundle with a regular expression and applies *)
(* every entry.  Names and bundles are byte lists.  A path is the folder   *)
(* and the last component, which is Repo.name.  git is kept abstract: the  *)
(* diff of a repo is an input, and git apply rejects the diffs in          *)
(* RejectedDiffs.                                                          *)
(***************************************************************************)
MaxRepos == 2

\* b"---NEW REPO---"
NewRepoMark == <<45, 45, 45, 78, 69, 87, 32, 82, 69, 80, 79, 45, 45, 45>>

\* b"---CONTENT STARTS---"
ContentMark ==
    <<45, 45, 45, 67, 79, 78, 84, 69, 78, 84, 32, 83, 84, 65, 82, 84, 83,
      45, 45, 45>>

\* repo names: "a", "b", ...
RepoNames == {<<96 + k>> : k \in 1..MaxRepos}

\* outputs of git diff: nothing, a patch, a patch that git apply rejects
RepoDiffs == {<<>>, <<100, 10>>, <<88, 10>>}
RejectedDiffs == {<<88, 10>>}

\* Path(base_path) / repo_name
BasePath(name) == [dir |-> "base", name |-> name]

\* Repo(path=...), an instance
RepoAt(path) == [kind |-> "instance", path |-> path]

\* the class object Repo
RepoClass == [kind |-> "class"]

\* Repo.name: Path(self.path).name
RepoName(repo) == repo.path.name

\* _repo_index: {repo.name: Repo for repo in self.repos}
repo_index(repos) ==
    [nm \in {RepoName(repos[k]) : k \in DOMAIN repos} |-> RepoClass]

RECURSIVE CreateFrom(_, _, _)
\* create_diffs: for repo in self.repos, from list position k on; every
\* call of encrypt_func has its own randomness
CreateFrom(repos, k, pad) ==
    IF k > Len(repos) THEN <<>>
    ELSE NewRepoMark \o encrypt(repos[k].name, pad)
             \o ContentMark \o encrypt(repos[k].diff, (pad + 29) % 256)
             \o CreateFrom(repos, k + 1, (pad + 58) % 256)

\* create_diffs of a sender whose repos have the names and diffs given
create_diffs(repos, pad) == CreateFrom(repos, 1, pad)

\* the first position p >= from where mark starts in data, 0 if none
FirstAt(data, mark, from) ==
    LET hits == {p \in from..(Len(data) - Len(mark) + 1) :
                     /\ data[p] = mark[1]
                     /\ SubSeq(data, p, p + Len(mark) - 1) = mark}
    IN  IF hits = {} THEN 0 ELSE SetMin(hits)

RECURSIVE FindAll(_, _)
\* re.findall(rb"---NEW REPO---(.*?)---CONTENT STARTS---(.*?)
\* (?=---NEW REPO---|$)", combined_diff, flags=re.DOTALL), from position pos
\* on: both groups are lazy; $ holds at the end and before a last newline
FindAll(data, pos) ==
    LET n == FirstAt(data, NewRepoMark, pos)
        c == IF n = 0 THEN 0
             ELSE FirstAt(data, ContentMark, n + Len(NewRepoMark))
        g == c + Len(ContentMark)
        nx == FirstAt(data, NewRepoMark, g)
        ends == {Len(data) + 1}
                    \cup (IF nx # 0 THEN {nx} ELSE {})
                    \cup (IF Len(data) >= g /\ data[Len(data)] = 10
                          THEN {Len(data)} ELSE {})
        e == SetMin(ends)
    IN  IF n = 0 \/ c = 0 THEN <<>>
        ELSE <<[name |-> SubSeq(data, n + Len(NewRepoMark), c - 1),
                diff |-> SubSeq(data, g, e - 1)]>>
                 \o FindAll(data, e)

\* apply_repo_diff(path, diff): an empty diff returns at once, git apply
\* raises on a diff it rejects
apply_repo_diff(path, diff) ==
    [path |-> path, diff |-> diff,
     result |-> IF diff = <<>> THEN "empty"
                ELSE IF diff \in RejectedDiffs THEN "raised" ELSE "applied"]

\* one pass of the loop of apply_diffs over the match m; st holds self.repos,
\* the calls of apply_repo_diff made so far, and whether an exception left
\* the method
ApplyEntry(st, m) ==
    LET nm == decrypt(m.name)
        index == repo_index(st.repos)
        known == nm.bytes \in DOMAIN index
        repo == IF known THEN index[nm.bytes] ELSE RepoAt(BasePath(nm.bytes))
        st1 == IF known THEN st
               ELSE [st EXCEPT !.repos = Append(@, repo)]
        d == decrypt(m.diff)
    IN  IF nm.raised THEN [st EXCEPT !.raised = TRUE]
        ELSE IF d.raised THEN st1
        ELSE IF repo.kind = "class" THEN st1
        ELSE [st1 EXCEPT !.calls = Append(@, apply_repo_diff(repo.path, d.bytes))]

RECURSIVE ApplyFrom(_, _, _)
\* for encrypted_name, encrypted_diff in matches, from list position k on
ApplyFrom(st, matches, k) ==
    IF k > Len(matches) \/ st.raised THEN st
    ELSE ApplyFrom(ApplyEntry(st, matches[k]), matches, k + 1)

\* apply_diffs(combined_diff) on a receiver whose self.repos is repos
apply_diffs(repos, combined_diff) ==
    ApplyFrom([repos |-> repos, calls |-> <<>>, raised |-> FALSE],
              FindAll(combined_diff, 1), 1)

\* the sender's repos: up to MaxRepos repos of different names, each with
\* the output of its git diff
SenderRepos ==
    {s \in UNION {[1..n -> [name : RepoNames, diff : RepoDiffs]] : n \in 1..MaxRepos} :
        \A i, j \in DOMAIN s : i # j => s[i].name # s[j].name}

\* the receiver's repos.json: nothing, one repo under base_path or
\* elsewhere, or the first two names under base_path
ReceiverRepos ==
    {<<>>} \cup {<<RepoAt(BasePath(nm))>> : nm \in RepoNames}
        \cup {<<RepoAt([dir |-> "elsewhere", name |-> <<97>>])>>,
              <<RepoAt(BasePath(<<97>>)), RepoAt(BasePath(<<98>>))>>}

InitRepos ==
    /\ \E s \in SenderRepos, r \in ReceiverRepos :
        rep = [active |-> TRUE, stage |-> "repos", sender |-> s,
               registered |-> r, bundle |-> <<>>, repos |-> r,
               calls |-> <<>>, raised |-> FALSE]
    /\ TransportIdle
    /\ cry = NoCrypt /\ draw = NoDraw /\ deg = NoDegree /\ pdf = NoPdf

\* combined_diff = Repos.create_diffs() on the sender
CreateDiffs ==
    /\ rep.active /\ rep.stage = "repos"
    /\ \E pad \in {0, 90} :
        rep' = [rep EXCEPT !.stage = "bundled",
                           !.bundle = create_diffs(rep.sender, pad)]
    /\ UNCHANGED <<transport, cry, draw, deg, pdf>>

\* Repos.apply_diffs(combined_diff) on the receiver
ApplyDiffs ==
    /\ rep.active /\ rep.stage = "bundled"
    /\ LET st == apply_diffs(rep.repos, rep.bundle)
       IN  rep' = [rep EXCEPT !.stage = "applied", !.repos = st.repos,
                              !.calls = st.calls, !.raised = st.raised]
    /\ UNCHANGED <<transport, cry, draw, deg, pdf>>

NextRepos == CreateDiffs \/ ApplyDiffs

SpecRepos == InitRepos /\ [][NextRepos]_vars

-----------------------------------------------------------------------------
(***************************************************************************)
(* Properties.                                                             *)
(***************************************************************************)
\* the receiver states that hold a session
Active == {dc \in DOMAIN dec : dec[dc].sid # NoSid}

\* the session whose frames built the DecodeState of receiver dc
SrcOf(dc) == sess[hist[dc].src]

\* the XOR of byte b of the chunks named by idxs, folded from the chunk list
RECURSIVE XorFold(_, _, _)
XorFold(chunks, idxs, b) ==
    IF idxs = {} THEN 0
    ELSE LET j == CHOOSE x \in idxs : TRUE
         IN  Xor8(chunks[j + 1][b], XorFold(chunks, idxs \ {j}, b))

XorOf(chunks, idxs) == [b \in 1..Len(chunks[1]) |-> XorFold(chunks, idxs, b)]

\* ceil(a / b) over the integers
CeilDiv(a, b) == (a + b - 1) \div b

\* C1: feeding the N frames of build_frames(payload, chunk_size, 0.12) once,
\* in index order 0..N-1, to a fresh decoder ends in Complete with the bytes
\* of the payload
RoundTripInOrder ==
    \A dc \in Active :
        LET in == SrcOf(dc)
        IN  (in.overhead.pct = 12 /\ hist[dc].inorder = Len(in.frames))
                => outcome[dc] = [kind |-> "Complete", bytes |-> in.data]

\* C2: the chunks of build_frames satisfy K * cs >= L, and their
\* concatenation in order, truncated to L bytes, is the payload
ChunkingInvariant ==
    \A s \in DOMAIN sess :
        sess[s].built =>
            LET in == sess[s]
                L == Len(in.data)
                hd == in.frames[1]
            IN  /\ hd.K = Len(in.chunks)
                /\ \A k \in 1..hd.K : Len(in.chunks[k]) = hd.cs
                /\ hd.K * hd.cs >= L
                /\ SubSeq(Concat(in.chunks, 1), 1, L) = in.data

\* a payload whose last chunk was padded and whose last byte is not zero
ChunkingPadded ==
    \E s \in DOMAIN sess :
        /\ sess[s].built
        /\ Len(sess[s].data) > sess[s].chunk_size
        /\ Len(sess[s].data) % sess[s].chunk_size # 0
        /\ sess[s].data[Len(sess[s].data)] # 0

\* the DecodeState after the frames at the list positions S, each fed once,
\* in ascending order
RECURSIVE FeedSorted(_, _, _)
FeedSorted(st, frames, S) ==
    IF S = {} THEN st
    ELSE LET pos == SetMin(S)
         IN  FeedSorted(FeedFrame(st, frames[pos + 1]), frames, S \ {pos})

\* what order-independence compares: the solved chunks and the status
Observable(st) == [solved |-> st.solved, status |-> st.status]

\* C3: whatever the order and the repetitions in which a set of frames of one
\* session was fed, the solved chunks, the status and the outcome are those
\* of feeding that set once in ascending order
OrderIndependent ==
    \A dc \in Active :
        LET ref == FeedSorted(NoState, SrcOf(dc).frames, hist[dc].since)
        IN  /\ Observable(dec[dc]) = Observable(ref)
            /\ outcome[dc] = OutcomeOf(ref)

\* the whole loop fed out of order with repetitions, and decoded
PermutedComplete ==
    \E dc \in Active :
        /\ hist[dc].since = 0..(Len(SrcOf(dc).frames) - 1)
        /\ hist[dc].perm
        /\ hist[dc].dupAt # {}
        /\ outcome[dc].kind = "Complete"
        /\ \E k \in 1..Len(SrcOf(dc).frames) : SrcOf(dc).frames[k].d >= 2

NoFalseCompletion ==
    \A dc \in Active :
        LET n == Cardinality(hist[dc].since)
        IN  /\ Cardinality(SolvedIdx(dec[dc])) <= n
            /\ n < Len(SrcOf(dc).chunks) =>
                   /\ dec[dc].status = "STALLED"
                   /\ outcome[dc].kind = "Pending"

\* several frames, repetitions among them, yet fewer than K distinct symbols
PartialFeed ==
    \E dc \in Active :
        /\ Cardinality(hist[dc].since) >= 2
        /\ Cardinality(hist[dc].since) < Len(SrcOf(dc).chunks)
        /\ hist[dc].dupAt # {}
        /\ SolvedIdx(dec[dc]) # {}

\* C6: feeding a frame whose (session id, i) pair was already consumed
\* changes neither the DecodeState nor the outcome reported
DuplicateNoOp ==
    [][\A dc \in DOMAIN dec, s \in DOMAIN sess, j \in 1..(2 * (MaxLen + 1)) :
          (/\ Feed(dc, s, j)
           /\ dec[dc].sid = sess[s].frames[j].sid
           /\ <<sess[s].frames[j].sid, sess[s].frames[j].i>> \in dec[dc].seen)
              => /\ dec'[dc] = dec[dc]
                 /\ outcome'[dc] = outcome[dc]]_vars

\* consumed frames were fed again while stalled and after completion
DuplicateBoth ==
    \E dc \in Active :
        /\ hist[dc].dupAt = {"STALLED", "COMPLETE"}
        /\ dec[dc].status = "COMPLETE"

\* C7: everything a DecodeState holds derives from the frames of the session
\* of the last frame fed that were fed since the last change of session id
SessionIsolation ==
    \A dc \in Active :
        LET in == SrcOf(dc)
            st == dec[dc]
            fed == {in.frames[pos + 1].i : pos \in hist[dc].since}
        IN  /\ st.sid = in.sid
            /\ st.seen \subseteq {<<in.sid, i>> : i \in fed}
            /\ \A j \in SolvedIdx(st) : st.solved[j + 1] = in.chunks[j + 1]
            /\ \A k \in 1..Len(st.unresolved) :
                   /\ st.unresolved[k].i \in fed
                   /\ st.unresolved[k].val = XorOf(in.chunks, st.unresolved[k].idxs)
            /\ st.status = "COMPLETE" => outcome[dc].bytes = in.data

\* a receiver that changed session and solved chunks of the new one
SessionSwitched ==
    \E dc \in Active :
        /\ hist[dc].switched
        /\ Cardinality(hist[dc].since) >= 2
        /\ SolvedIdx(dec[dc]) # {}
        /\ \E s \in DOMAIN sess : s # hist[dc].src /\ sess[s].data # SrcOf(dc).data

\* C8: lt_encode_symbol returns a degree d with 1 <= d <= K and cs bytes
\* that are the XOR of d distinct chunks with indices in 0..K-1
SymbolWellFormed ==
    symOut.active =>
        \A i \in 0..MaxSym :
            symOut.calls[i] > 0 =>
                LET o == symOut.out[i]
                    K == Len(symOut.chunks)
                IN  /\ 1 <= o.d /\ o.d <= K
                    /\ Len(o.p) = Len(symOut.chunks[1])
                    /\ o.chosen \subseteq 0..(K - 1)
                    /\ Cardinality(o.chosen) = o.d
                    /\ o.p = XorOf(symOut.chunks, o.chosen)

\* a symbol of degree two or more over chunks that differ
SymbolMixed ==
    /\ symOut.active
    /\ \E i \in 0..MaxSym :
        /\ symOut.calls[i] > 0
        /\ symOut.out[i].d >= 2
        /\ \E j \in symOut.out[i].chosen :
               \E b \in 1..Len(symOut.chunks[1]) : symOut.chunks[j + 1][b] # 0

\* C9: for L > 0 build_frames makes ceil(L / chunk_size) chunks of
\* min(L, chunk_size) bytes, only the last one padded, with trailing zeros;
\* for L = 0 it makes the one chunk <<0>> and at least one frame with len 0
ChunkShape ==
    \A s \in DOMAIN sess :
        sess[s].built =>
            LET in == sess[s]
                L == Len(in.data)
                c == in.chunk_size
                K == Len(in.chunks)
            IN  /\ Len(in.frames) >= 1
                /\ \A k \in 1..Len(in.frames) : in.frames[k].len = L
                /\ L = 0 =>
                       /\ in.chunks = << <<0>> >>
                       /\ in.frames[1].K = 1 /\ in.frames[1].cs = 1
                /\ L > 0 =>
                       /\ K = CeilDiv(L, c)
                       /\ in.frames[1].K = K
                       /\ in.frames[1].cs = Min(L, c)
                       /\ \A k \in 1..(K - 1) :
                              in.chunks[k] = SubSeq(in.data, (k - 1) * c + 1, k * c)
                       /\ in.chunks[K] =
                              SubSeq(in.data, (K - 1) * c + 1, L)
                                  \o [b \in 1..(Min(L, c) - (L - (K - 1) * c)) |-> 0]

\* the empty payload, built
ChunkEmpty ==
    \E s \in DOMAIN sess :
        sess[s].built /\ sess[s].data = <<>> /\ Len(sess[s].frames) >= 1

\* C10: build_frames returns exactly N = ceil(K * (1 + overhead)) frames
FrameCountIsCeil ==
    (cnt.active /\ cnt.done) =>
        cnt.N = CeilDiv(cnt.K * (100 + cnt.overhead.pct), 100)

\* C11: with a content hash carried, a Complete outcome hands over bytes
\* whose hash is the carried one; after a mismatch the outcome is
\* IntegrityFailure, it hands over no bytes, and no DecodeState is kept
IntegrityGate ==
    \A dc \in DOMAIN dec :
        hist[dc].src # "" =>
            LET H == ContentHash(hist[dc].src)
            IN  /\ outcome[dc].kind = "Complete" =>
                       sha256_hex(outcome[dc].bytes) = H
                /\ dec[dc].status = "COMPLETE" =>
                       /\ sha256_hex(Reconstruct(dec[dc])) = H
                       /\ outcome[dc].kind = "Complete"
                /\ outcome[dc].kind = "IntegrityFailure" =>
                       /\ outcome[dc].bytes = <<>>
                       /\ dec[dc] = NoState

\* altered frames completed the peeling and the hash did not match
IntegrityFailed ==
    \E dc \in DOMAIN dec :
        /\ outcome[dc].kind = "IntegrityFailure"
        /\ Cardinality(hist[dc].since) >= 2

\* C12: decrypt(encrypt(x)) = x for every x, the empty string and lengths
\* that are no multiple of 190 included; the ciphertext has one 256-byte
\* block per 190-byte block of x
CryptoRoundTrip ==
    cry.active =>
        /\ cry.stage # "plain" =>
               Len(cry.cipher) = CipherBlock * CeilDiv(Len(cry.text), PlainBlock)
        /\ cry.stage = "decrypted" => ~cry.raised /\ cry.out = cry.text

\* a text of several blocks, the last one not full, decrypted
CryptoRagged ==
    /\ cry.active /\ cry.stage = "decrypted"
    /\ Len(cry.text) > PlainBlock
    /\ Len(cry.text) % PlainBlock # 0

\* C13: whatever frames of one session were fed, every solved chunk is the
\* encoder's chunk at that index, the value of every unresolved record is
\* the XOR of the encoder's chunks at its remaining indices, and a Complete
\* outcome carries the payload
PeelingSound ==
    \A dc \in Active :
        LET in == SrcOf(dc)
            st == dec[dc]
        IN  /\ \A j \in 0..(st.K - 1) :
                   st.solved[j + 1] \in {NoVal, in.chunks[j + 1]}
            /\ \A k \in 1..Len(st.unresolved) :
                   LET rec == st.unresolved[k]
                   IN  /\ rec.idxs \cap SolvedIdx(st) = {}
                       /\ rec.val = XorOf(in.chunks, rec.idxs)
            /\ st.ripe = <<>>
            /\ outcome[dc].kind = "Complete" =>
                   /\ outcome[dc].bytes = in.data
                   /\ SolvedIdx(st) = 0..(Len(in.chunks) - 1)

\* a payload decoded from exactly K frames, one of them of degree two
PeeledThroughMixed ==
    \E dc \in Active :
        /\ outcome[dc].kind = "Complete"
        /\ Cardinality(hist[dc].since) = Len(SrcOf(dc).chunks)
        /\ \E pos \in hist[dc].since : SrcOf(dc).frames[pos + 1].d >= 2
        /\ \E k \in 1..Len(SrcOf(dc).data) : SrcOf(dc).data[k] # 0

\* the index set a receiver gets that seeds a fresh generator and draws
\* indices at once, with no draw spent on the degree
IndexSetSkipping(fec_seed, i, K, d) ==
    DrawDistinct(SymbolRng(fec_seed, i, K), {}, d, K).chosen

\* C14 as stated: seeding a fresh XorShift32 with the per-symbol seed and
\* drawing randint(0, K-1) until d distinct indices are there, with no
\* degree sampling, gives the index set lt_encode_symbol XORed
SkippingRederives ==
    symOut.active =>
        \A i \in 0..MaxSym :
            symOut.calls[i] > 0 =>
                IndexSetSkipping(symOut.fec_seed, i, Len(symOut.chunks),
                                 symOut.out[i].d) = symOut.out[i].chosen

\* C14: seeding a fresh XorShift32 with the per-symbol seed, discarding one
\* rand32 value (the one sample_degree consumed) and then drawing
\* randint(0, K-1) until d distinct indices are there gives the index set
\* lt_encode_symbol XORed
ReplayRederives ==
    symOut.active =>
        \A i \in 0..MaxSym :
            symOut.calls[i] > 0 =>
                IndexSet(symOut.fec_seed, i, Len(symOut.chunks),
                         symOut.out[i].d) = symOut.out[i].chosen

\* a symbol over several chunks whose index set is not the one drawn
\* without the discarded value
ReplayMatters ==
    /\ symOut.active
    /\ \E i \in 0..MaxSym :
        /\ symOut.calls[i] > 0
        /\ symOut.out[i].d < Len(symOut.chunks)
        /\ IndexSetSkipping(symOut.fec_seed, i, Len(symOut.chunks),
                            symOut.out[i].d) # symOut.out[i].chosen

\* C15: for every K, per-symbol seed and degree d in 1..K the loop
\* `while len(chosen) < d` ends: whenever the d indices are not yet there,
\* fewer than MaxDraws iterations were needed so far and the loop goes on
LoopTerminates ==
    (draw.active /\ draw.stage = "loop") =>
        \/ Cardinality(draw.chosen) = draw.d
        \/ draw.n < MaxDraws

\* the loop ended with all K indices chosen after rejecting duplicates
LoopRejected ==
    /\ draw.active /\ draw.stage = "loop"
    /\ draw.K >= 3
    /\ Cardinality(draw.chosen) = draw.K
    /\ draw.d = draw.K
    /\ draw.n > draw.K + 2

\* C19: the generator's state after construction and after any number of
\* rand32 calls is an integer in 1..2^32-1
RngStateNonzero ==
    draw.active =>
        /\ draw.state \in (0..65535) \X (0..65535)
        /\ draw.state # <<0, 0>>
        /\ draw.seed = <<0, 0>> /\ draw.stage = "seeded" =>
               draw.state = <<57005, 48879>>
        /\ draw.seed # <<0, 0>> /\ draw.stage = "seeded" =>
               draw.state = draw.seed

\* a generator built from the seed zero, stepped several times
RngFromZero ==
    /\ draw.active
    /\ draw.seed = <<0, 0>>
    /\ draw.n >= 3

\* every chunk index of the frame is already solved
Vacuous(st, fr) == IndexSet(fr.r, fr.i, fr.K, fr.d) \subseteq SolvedIdx(st)

\* C16 as stated: feeding a duplicate, a frame of a session id other than
\* the one in progress, or a vacuous frame leaves the DecodeState unchanged
DroppedNoEffect ==
    [][\A dc \in DOMAIN dec, s \in DOMAIN sess, j \in 1..(2 * (MaxLen + 1)) :
          (/\ Feed(dc, s, j)
           /\ dec[dc].sid # NoSid
           /\ LET fr == sess[s].frames[j]
              IN  \/ fr.sid # dec[dc].sid
                  \/ <<fr.sid, fr.i>> \in dec[dc].seen
                  \/ Vacuous(dec[dc], fr))
              => dec'[dc] = dec[dc]]_vars

\* C16: a duplicate or a vacuous frame of the session in progress leaves
\* the DecodeState unchanged, that is, a step that changes the DecodeState
\* within a session feeds a frame not fed before that is neither; a frame
\* of another session id replaces the DecodeState by a fresh one that holds
\* this one frame and nothing of the old session
DroppedOrReset ==
    [][\A dc \in DOMAIN dec :
          (dec[dc].sid # NoSid /\ dec'[dc] # dec[dc]) =>
              LET st == dec[dc]
                  frames == sess[hist'[dc].src].frames
              IN  IF dec'[dc].sid = st.sid
                  THEN \E pos \in hist'[dc].since \ hist[dc].since :
                           /\ <<st.sid, frames[pos + 1].i>> \notin st.seen
                           /\ ~Vacuous(st, frames[pos + 1])
                           /\ dec'[dc] = FeedFrame(st, frames[pos + 1])
                  ELSE \E pos \in hist'[dc].since :
                           /\ hist'[dc].since = {pos}
                           /\ frames[pos + 1].sid # st.sid
                           /\ dec'[dc].seen = {<<dec'[dc].sid, frames[pos + 1].i>>}
                           /\ dec'[dc] = FeedFrame(NoState, frames[pos + 1])]_vars

\* after a change of session, a frame of the new session was fed whose
\* chunks were all solved, and it left no trace in the seen-set
DroppedAll ==
    \E dc \in Active :
        /\ hist[dc].switched
        /\ \E pos \in hist[dc].since :
               <<dec[dc].sid, SrcOf(dc).frames[pos + 1].i>> \notin dec[dc].seen

\* C17: when a receiver is stalled after a full loop of its session, every
\* frame of the next loop iteration carries a symbol index that differs
\* from every index of the first iteration and is not in the seen-set, so
\* that it is not discarded as a duplicate
LaterLoopFresh ==
    \A dc \in Active :
        LET s == hist[dc].src
            N == Len(sess[s].frames)
        IN  (dec[dc].status = "STALLED" /\ hist[dc].since = 0..(N - 1)) =>
                \A t \in N..(2 * N - 1) :
                    /\ \A u \in 0..(N - 1) :
                           Displayed(s, t).i # Displayed(s, u).i
                    /\ <<dec[dc].sid, Displayed(s, t).i>> \notin dec[dc].seen

\* the largest 32-bit r with r / 2^32 <= q, by long division of q[1] * 2^32
\* by q[2]; for q = 1 the first half is 65536, above every r
Threshold(q) ==
    LET hi == (q[1] * 65536) \div q[2]
        rem == (q[1] * 65536) % q[2]
    IN  <<hi, (rem * 65536) \div q[2]>>

\* q >= r / 2^32
AtLeast(q, r) ==
    LET t == Threshold(q)
    IN  r[1] < t[1] \/ (r[1] = t[1] /\ r[2] <= t[2])

\* C18: for a nondecreasing cdf[0..K] with cdf[0] = 0 and cdf[K] = 1 and
\* u = r / 2^32, sample_degree returns the smallest d in 1..K with
\* cdf[d] >= u, and the clamp max(1, min(K, d)) leaves it as it is
DegreeIsSmallest ==
    (deg.active /\ deg.done) =>
        /\ deg.d \in 1..deg.K
        /\ AtLeast(deg.cdf[deg.d], deg.r)
        /\ \A e \in 1..(deg.d - 1) : ~AtLeast(deg.cdf[e], deg.r)
        /\ deg.clamped = deg.d

\* a degree strictly between 1 and K was returned for a u equal to cdf[d]
DegreeOnBoundary ==
    /\ deg.active /\ deg.done
    /\ deg.d \in 2..(deg.K - 1)
    /\ deg.r = Threshold(deg.cdf[deg.d])

\* C20: for every payload and every number n >= 1 of input PDFs,
\* recover_from_pdfs on the output of attach_to_pdfs returns the payload:
\* the parts attached as file_0.bin .. file_{n-1}.bin are joined in their
\* original order when sorted by attachment name
PdfRoundTrip ==
    (pdf.active /\ pdf.stage = "recovered") => pdf.recovered = pdf.data

\* the path the diff of the repo called name belongs to on a receiver that
\* started with the repos registered
TargetPath(registered, name) ==
    IF \E k \in DOMAIN registered : RepoName(registered[k]) = name
    THEN (CHOOSE r \in {registered[k] : k \in DOMAIN registered} :
              RepoName(r) = name).path
    ELSE BasePath(name)

\* C21: after apply_diffs on a bundle of create_diffs, every entry's diff
\* was handed to git exactly once (an empty diff, which changes nothing, at
\* most once), at the path of the registered repo of its name, or else at a
\* repo appended at base_path/name; no other call was made, and an entry
\* whose diff git rejects does not keep the others from being applied
BundleApplied ==
    (rep.active /\ rep.stage = "applied") =>
        /\ ~rep.raised
        /\ Len(rep.calls) <= Len(rep.sender)
        /\ \A k \in DOMAIN rep.sender :
               LET e == rep.sender[k]
                   target == TargetPath(rep.registered, e.name)
                   n == Cardinality({j \in DOMAIN rep.calls :
                                        /\ rep.calls[j].path = target
                                        /\ rep.calls[j].diff = e.diff})
               IN  /\ IF e.diff = <<>> THEN n <= 1 ELSE n = 1
                   /\ \E j \in DOMAIN rep.repos : rep.repos[j] = RepoAt(target)

=============================================================================
